---------------------------- MODULE Spec2Model ----------------------------
(***************************************************************************)
(* Dependency resolution of pkg/devspace/dependency/resolver.go.           *)
(*                                                                         *)
(* The resolver walks the dependency declarations depth first, keeps one   *)
(* graph node per identity, saves the base cache and drains the graph into *)
(* the ordered dependency list.  The graph store (graph.go) and the        *)
(* identity utility (util) are not part of the source tree at hand; they   *)
(* are modelled from sections 3 and 4.2 of the specification.              *)
(***************************************************************************)
EXTENDS Integers, Sequences, FiniteSets, TLC

(* ------------------------------ bounds --------------------------------- *)

\* number of distinct dependency identities besides the root
NumIds == 3

\* longest list of declarations in one configuration
MaxDecls == 2

\* most declarations that set ignoreDependencies in one configuration universe
MaxIgnore == 1

\* most declarations in one configuration universe, the root's included
MaxTotalDecls == 4

\* most Resolve calls in one behaviour
MaxCalls == 2

\* most declarations that set a namespace, and most that set skipBuild, in
\* one configuration universe
MaxNamespace == 1

\* most edges of a graph built through the graph store on its own
MaxEdges == 5

\* most terminal sessions one StartTerminal call opens, restarts included
MaxSessions == 3

\* largest exit code of a command run in the terminal
MaxExitCode == 1

(* ------------------------------ values --------------------------------- *)

\* identity of the root node (resolver.go:62-70: the remote or the base path)
RootID == 0

Ids == 1..NumIds

AllIds == Ids \cup {RootID}

\* the namespaces a declaration may set; "" is no namespace
Namespaces == {"", "other"}

\* a dependency declaration (latest.DependencyConfig): the identity its
\* source and profile resolve to, the ignoreDependencies switch, the
\* namespace and the skipBuild switch
Decl == [Source : Ids, IgnoreDependencies : BOOLEAN, Namespace : Namespaces,
         SkipBuild : BOOLEAN]

NumIgnoring(deps) == Cardinality({i \in 1..Len(deps) : deps[i].IgnoreDependencies})

NumNamespaced(deps) == Cardinality({i \in 1..Len(deps) : deps[i].Namespace # ""})

NumSkipping(deps) == Cardinality({i \in 1..Len(deps) : deps[i].SkipBuild})

\* a nil kubectl.Client
NilClient == [obj |-> "nil", context |-> "", namespace |-> ""]

\* the client the resolver is constructed with
RootClient == [obj |-> "root", context |-> "ctx", namespace |-> "default"]

\* kubectl.NewClientFromContext(context, namespace, switchContext, kubeLoader):
\* a new client object bound to the namespace under the context
NewClientFromContext(context, namespace) ==
    [obj |-> "new", context |-> context, namespace |-> namespace]

\* client.CurrentContext()
CurrentContext(c) == c.context

\* payload of the root node: newNode(id, nil)
NilData == [ID |-> -1, IgnoreDependencies |-> FALSE, Namespace |-> "",
            SkipBuild |-> FALSE, Images |-> "", Dependencies |-> <<>>,
            kubeClient |-> NilClient]

\* what the collaborators answer for an identity that was not asked for yet
Unloaded == [loaded |-> FALSE, ok |-> FALSE, deps |-> <<>>]

(* ------------------------------ errors --------------------------------- *)

NoError == [kind |-> "nil", msg |-> "", path |-> <<>>, wraps |-> <<>>]

\* errors.Errorf / an error of a collaborator
PlainError(m) == [kind |-> "error", msg |-> m, path |-> <<>>, wraps |-> <<>>]

\* &cyclicError{path: ...}
CyclicError(p) == [kind |-> "cyclic", msg |-> "", path |-> p, wraps |-> <<>>]

\* errors.Wrap(err, message): a new error value around err
Wrap(err, m) == [err EXCEPT !.kind = "error", !.wraps = <<m>> \o @]

IsCyclicError(err) == err.kind = "cyclic"


(* --------------------------- graph store ------------------------------- *)
(* Specification sections 3 and 4.2.  A graph is a record                  *)
(*   Nodes  : the identities present (the keys of the node map)            *)
(*   Childs : identity -> the ordered identities it points to              *)
(*   Data   : identity -> payload                                          *)
(* Edges are kept as identities, so parents are found by search.           *)

EmptyChilds == [n \in AllIds |-> <<>>]

\* newGraph(newNode(id, nil)): the root alone
newGraph(rootID) ==
    [Root |-> rootID, Nodes |-> {rootID}, Childs |-> EmptyChilds,
     Data |-> [n \in AllIds |-> NilData]]

Range(s) == {s[i] : i \in 1..Len(s)}

IndexOf(s, x) == CHOOSE i \in 1..Len(s) : s[i] = x /\ \A j \in 1..(i - 1) : s[j] # x

\* the children of n that are still present in the graph
LiveChilds(g, n) == SelectSeq(g.Childs[n], LAMBDA c : c \in g.Nodes)

\* the identities reachable from the set S over existing edges (S included)
RECURSIVE ReachFrom(_, _)
ReachFrom(g, S) ==
    LET N == S \cup UNION {Range(g.Childs[n]) : n \in S}
    IN  IF N = S THEN S ELSE ReachFrom(g, N)

\* cycle guard: is there a path from a to b (a = b included)
HasPath(g, a, b) == b \in ReachFrom(g, {a})

\* insertNodeAt that leaves out the edge from the parent to the new node
insertNodeAtDetached(g, parentID, id, data) ==
    IF parentID \notin g.Nodes
    THEN [g |-> g, err |-> PlainError("parent does not exist")]
    ELSE IF id \in g.Nodes
    THEN [g |-> g, err |-> PlainError("node already exists")]
    ELSE [g |-> [g EXCEPT !.Nodes = @ \cup {id},
                          !.Childs[id] = <<>>,
                          !.Data[id] = data],
          err |-> NoError]

\* insertNodeAt that puts the new node before the children of the parent
insertNodeAtFront(g, parentID, id, data) ==
    IF parentID \notin g.Nodes
    THEN [g |-> g, err |-> PlainError("parent does not exist")]
    ELSE IF id \in g.Nodes
    THEN [g |-> g, err |-> PlainError("node already exists")]
    ELSE [g |-> [g EXCEPT !.Nodes = @ \cup {id},
                          !.Childs[id] = <<>>,
                          !.Childs[parentID] = <<id>> \o @,
                          !.Data[id] = data],
          err |-> NoError]

\* insertNodeAt(parentId, newId, payload)
insertNodeAt(g, parentID, id, data) ==
    IF parentID \notin g.Nodes
    THEN [g |-> g, err |-> PlainError("parent does not exist")]
    ELSE IF id \in g.Nodes
    THEN [g |-> g, err |-> PlainError("node already exists")]
    ELSE [g |-> [g EXCEPT !.Nodes = @ \cup {id},
                          !.Childs[parentID] = Append(@, id),
                          !.Childs[id] = <<>>,
                          !.Data[id] = data],
          err |-> NoError]

\* addEdge with the search for a path left out
addEdgeUnguarded(g, fromID, toID) ==
    IF fromID \notin g.Nodes \/ toID \notin g.Nodes
    THEN [g |-> g, err |-> PlainError("node does not exist")]
    ELSE [g |-> [g EXCEPT !.Childs[fromID] = Append(@, toID)], err |-> NoError]

\* addEdge(fromId, toId)
addEdge(g, fromID, toID) ==
    IF fromID \notin g.Nodes \/ toID \notin g.Nodes
    THEN [g |-> g, err |-> PlainError("node does not exist")]
    ELSE IF HasPath(g, toID, fromID)
    THEN [g |-> g, err |-> CyclicError(<<toID, fromID>>)]
    ELSE IF toID \in Range(g.Childs[fromID])
    THEN [g |-> g, err |-> NoError]
    ELSE [g |-> [g EXCEPT !.Childs[fromID] = Append(@, toID)], err |-> NoError]

\* removeNode that fails while another node points to the node
removeNodeUnlessTarget(g, id) ==
    IF id = g.Root
    THEN [g |-> g, err |-> PlainError("cannot remove the root")]
    ELSE IF id \notin g.Nodes
    THEN [g |-> g, err |-> NoError]
    ELSE IF \E p \in g.Nodes \ {id} : id \in Range(g.Childs[p])
    THEN [g |-> g, err |-> PlainError("node is still a target")]
    ELSE [g |-> [g EXCEPT !.Nodes = @ \ {id},
                          !.Childs = [n \in AllIds |->
                                        IF n = id THEN <<>>
                                        ELSE SelectSeq(g.Childs[n], LAMBDA c : c # id)],
                          !.Data[id] = NilData],
          err |-> NoError]

\* removeNode(id): only a current leaf (no outgoing edge to a remaining node)
\* other than the root can be removed; removal deletes the node and every
\* edge pointing to it
removeNode(g, id) ==
    IF id = g.Root
    THEN [g |-> g, err |-> PlainError("cannot remove the root")]
    ELSE IF id \notin g.Nodes
    THEN [g |-> g, err |-> NoError]
    ELSE IF Len(LiveChilds(g, id)) > 0
    THEN [g |-> g, err |-> PlainError("node still has children")]
    ELSE [g |-> [g EXCEPT !.Nodes = @ \ {id},
                          !.Childs = [n \in AllIds |->
                                        IF n = id THEN <<>>
                                        ELSE SelectSeq(g.Childs[n], LAMBDA c : c # id)],
                          !.Data[id] = NilData],
          err |-> NoError]

\* first current leaf other than the root met by a traversal from n that
\* follows the children in their order; -1 when there is none.  `seen' are
\* the nodes on the way down, so that the search ends on any graph.
RECURSIVE FirstLeaf(_, _, _)
RECURSIVE FirstLeafAmong(_, _, _, _)
FirstLeaf(g, n, seen) ==
    IF n # g.Root /\ Len(LiveChilds(g, n)) = 0 THEN n
    ELSE FirstLeafAmong(g, LiveChilds(g, n), 1, seen \cup {n})

FirstLeafAmong(g, cs, i, seen) ==
    IF i > Len(cs) THEN -1
    ELSE IF cs[i] \in seen THEN FirstLeafAmong(g, cs, i + 1, seen)
    ELSE LET r == FirstLeaf(g, cs[i], seen)
         IN  IF r # -1 THEN r ELSE FirstLeafAmong(g, cs, i + 1, seen)

\* getNextLeaf that follows the last child of every node
RECURSIVE LastLeaf(_, _)
LastLeaf(g, n) ==
    IF Len(LiveChilds(g, n)) = 0 THEN n
    ELSE LastLeaf(g, LiveChilds(g, n)[Len(LiveChilds(g, n))])

getNextLeafLast(g, from) == LastLeaf(g, from)

\* getNextLeaf(from): the root when no other leaf is found
getNextLeaf(g, from) ==
    LET r == FirstLeaf(g, from, {})
    IN  IF r = -1 THEN g.Root ELSE r


(* ----------------------------- state ----------------------------------- *)

VARIABLES
    AllowCyclic,      \* resolver.AllowCyclic
    client,           \* resolver.client
    nsLimit,          \* how many declarations may set a namespace, how many skipBuild
    failSteps,        \* the steps of resolveDependency whose collaborator may fail
    baseDeps,         \* resolver.BaseConfig.Dependencies
    world,            \* identity -> what acquiring and loading it yields
    saveOutcome,      \* what generatedSaver.Save answers: "unknown", "ok", "fail"
    graph,            \* resolver.DependencyGraph
    stack,            \* the active resolveRecursive calls, innermost last
    pc,               \* where Resolve stands: idle, descend, save, drain, done
    retDependencies,  \* buildDependencyQueue's list under construction
    result,           \* the list Resolve returned
    retErr,           \* the error Resolve returned
    materialized,     \* identity -> resolveDependency calls in this Resolve call
    saves,            \* Save calls in this Resolve call
    declared,         \* <<parent, identity>> of the declarations processed
    built,            \* the graph as the descent left it
    edgeErr,          \* the last error addEdge produced in this Resolve call
    errPhase,         \* the phase the returned error comes from
    calls,            \* Resolve calls started
    prev,             \* outcome of the previous Resolve call
    fresh,            \* TRUE when this Resolve call is the first on its resolver
    order,            \* the identities resolveDependency was called for, in call order
    restart,          \* StartTerminal: the restart argument
    interrupt,        \* StartTerminal: the interrupt channel
    execs,            \* the exec goroutines StartTerminal started, latest last
    upgraderClosed,   \* per session: upgradeRoundTripper.Close() was called
    termPc,           \* where StartTerminal stands: idle, start, select, close, wait, returned
    termErr,          \* StartTerminal: the local variable err
    termRet           \* what StartTerminal returned

vars == <<AllowCyclic, client, nsLimit, failSteps, baseDeps, world,
          saveOutcome, graph, stack, pc, retDependencies, result, retErr, materialized, saves, declared,
          built, edgeErr, errPhase, calls, prev, fresh, order,
          restart, interrupt, execs, upgraderClosed, termPc, termErr, termRet>>

inputs == <<AllowCyclic, client, nsLimit, failSteps, baseDeps>>

\* the state of StartTerminal
terminal == <<restart, interrupt, execs, upgraderClosed, termPc, termErr, termRet>>

\* the state of the resolver
resolving == <<inputs, world, saveOutcome, graph, stack, pc, retDependencies,
               result, retErr, materialized, saves, declared, built, edgeErr,
               errPhase, calls, prev, fresh, order>>

\* the errors StartTerminal tells apart: nil, *InterruptError,
\* kubectlExec.CodeExitError with its code, and any other error
NilErr == [kind |-> "nil", code |-> 0]

InterruptErr == [kind |-> "interrupt", code |-> 0]

CodeExitError(code) == [kind |-> "exit", code |-> code]

OtherErr == [kind |-> "other", code |-> 0]

\* what ExecStreamWithTransport may return
ExecResults ==
    {NilErr, InterruptErr, OtherErr} \cup {CodeExitError(c) : c \in 0..MaxExitCode}

\* what a sender may put on the interrupt channel
InterruptValues == {NilErr, InterruptErr, OtherErr}

\* the interrupt channel: no sender, a sender waiting with a value, or the
\* value received
NoSignal == [state |-> "quiet", val |-> NilErr]

\* StartTerminal has not returned
NoReturn == [code |-> -1, err |-> NilErr]

\* StartTerminal is not called
NoTerminal ==
    /\ restart = FALSE
    /\ interrupt = NoSignal
    /\ execs = <<>>
    /\ upgraderClosed = <<>>
    /\ termPc = "idle"
    /\ termErr = NilErr
    /\ termRet = NoReturn

\* a nil slice and a list of dependencies
NilList == [isNil |-> TRUE, deps |-> <<>>]

List(ds) == [isNil |-> FALSE, deps |-> ds]

NoOutcome == [result |-> NilList, err |-> "none", fresh |-> FALSE]

\* the identities of a list of dependencies
IDsOf(ds) == [i \in 1..Len(ds) |-> ds[i].ID]

\* a call frame of resolveRecursive(basePath, parentID, dependencies, update):
\* the parent, its declarations and the index of the next one
Frame(parentID, deps) == [parentID |-> parentID, deps |-> deps, i |-> 1]

Top == stack[Len(stack)]

\* util.GetDependencyID(basePath, source, profile): the identity a declaration
\* resolves to wherever it is declared
GetDependencyID(decl) == decl.Source

\* declarations that set a namespace among those known so far
NamespacedKnown(w, base) ==
    NumNamespaced(base)
    + Cardinality({<<n, i>> \in Ids \X (1..MaxDecls) :
                      i <= Len(w[n].deps) /\ w[n].deps[i].Namespace # ""})

\* declarations that set skipBuild among those known so far
SkippingKnown(w, base) ==
    NumSkipping(base)
    + Cardinality({<<n, i>> \in Ids \X (1..MaxDecls) :
                      i <= Len(w[n].deps) /\ w[n].deps[i].SkipBuild})

\* declarations that set ignoreDependencies among those known so far
IgnoringKnown(w, base) ==
    NumIgnoring(base)
    + Cardinality({<<n, i>> \in Ids \X (1..MaxDecls) :
                      i <= Len(w[n].deps) /\ w[n].deps[i].IgnoreDependencies})

RECURSIVE SumLen(_, _)
SumLen(w, S) ==
    IF S = {} THEN 0
    ELSE LET n == CHOOSE x \in S : TRUE
         IN  Len(w[n].deps) + SumLen(w, S \ {n})

\* declarations known so far
DeclsKnown(w, base) == Len(base) + SumLen(w, Ids)

Max(S) == IF S = {} THEN 0 ELSE CHOOSE x \in S : \A y \in S : y <= x

\* the identities named so far
Named(w, base) ==
    {base[i].Source : i \in 1..Len(base)}
    \cup UNION {{w[n].deps[i].Source : i \in 1..Len(w[n].deps)} : n \in Ids}

\* Identities are opaque keys that the resolver only compares, so every
\* configuration universe is, up to renaming, one whose identities are
\* numbered in the order in which the declarations first name them: a list
\* may name the identities named before and the next unnamed one.
InNamingOrder(deps, named) ==
    \A i \in 1..Len(deps) :
        deps[i].Source <= 1 + Max(named \cup {deps[j].Source : j \in 1..(i - 1)})

\* what the declarations known so far use up of the universe
Known(w, base) ==
    [ignoring   |-> IgnoringKnown(w, base),
     namespaced |-> NamespacedKnown(w, base),
     skipping   |-> SkippingKnown(w, base),
     decls      |-> DeclsKnown(w, base),
     named      |-> Named(w, base)]

\* the declarations a configuration may hold, given those known
DeclsAfter(w, base) ==
    LET k == Known(w, base)
    IN  {d \in Decl :
            /\ d.Namespace # "" => k.namespaced < nsLimit
            /\ d.SkipBuild => k.skipping < nsLimit}

\* the list x of declarations fits into the universe next to those known
FitsAfter(k, x) ==
    /\ k.ignoring + NumIgnoring(x) <= MaxIgnore
    /\ k.namespaced + NumNamespaced(x) <= nsLimit
    /\ k.skipping + NumSkipping(x) <= nsLimit
    /\ k.decls + Len(x) <= MaxTotalDecls
    /\ InNamingOrder(x, k.named)

\* the lists of at most n declarations out of S that fit; a list fits only
\* if the lists it extends do
RECURSIVE FittingUpTo(_, _, _)
FittingUpTo(k, S, n) ==
    IF n = 0 THEN {<<>>}
    ELSE LET shorter == FittingUpTo(k, S, n - 1)
         IN  shorter \cup {x \in {Append(s, d) : s \in {t \in shorter : Len(t) = n - 1},
                                                d \in S} : FitsAfter(k, x)}

\* the lists of declarations a configuration may hold, given those known
ListsAfter(w, base) ==
    FittingUpTo(Known(w, base), DeclsAfter(w, base), MaxDecls)

\* what the collaborators may answer for an identity asked for the first time
Answers(w, base) ==
    {[loaded |-> TRUE, ok |-> FALSE, deps |-> <<>>]}
    \cup {[loaded |-> TRUE, ok |-> TRUE, deps |-> d] : d \in ListsAfter(w, base)}

(* ---------------------------- resolver --------------------------------- *)

\* NewResolverGraph with the graph shared between the resolvers
NewResolverGraphShared(old) == old

\* NewResolver: the graph of a new resolver holds the root alone
NewResolverGraph(old) == newGraph(RootID)

\* DependencyClient with the namespace of the declaration unread
DependencyClientShared(rclient, decl) == rclient

\* resolveDependency, the choice of the client: the resolver's own client,
\* or a new one when the declaration sets a namespace
DependencyClient(rclient, decl) ==
    IF decl.Namespace # ""
    THEN IF rclient = NilClient
         THEN NewClientFromContext("", decl.Namespace)
         ELSE NewClientFromContext(CurrentContext(rclient), decl.Namespace)
    ELSE rclient

\* resolveDependency, the images of the dependency's configuration: those
\* the configuration declares, or none when the declaration sets skipBuild
Images(decl) == IF decl.SkipBuild THEN "none" ELSE "config"

\* DownloadDependency giving the identity that follows the declared one
DownloadDependencyNextID(decl) == (decl.Source % NumIds) + 1

\* util.DownloadDependency, the identity it returns for the source it
\* acquired: the identity of the declaration
DownloadDependency(decl) == GetDependencyID(decl)

\* the steps of resolveDependency that call a collaborator, in the order of
\* the code
Steps == <<"download", "clone", "config", "commands", "generated", "client",
           "docker">>

\* the steps resolveDependency takes for a declaration: a client is only
\* created when the declaration sets a namespace
AttemptedSteps(decl) ==
    Range(Steps) \ (IF decl.Namespace # "" THEN {} ELSE {"client"})

\* the error resolveDependency returns when a step fails: the error of the
\* collaborator as it is, wrapped, or a new error
StepError(step) ==
    CASE step = "download"  -> PlainError("download dependency")
      [] step = "clone"     -> Wrap(PlainError("clone"), "clone config options")
      [] step = "config"    -> Wrap(PlainError("load config"), "loading config for dependency")
      [] step = "commands"  -> Wrap(PlainError("parse commands"), "parse dependency commands")
      [] step = "generated" -> PlainError("Error loading generated config for dependency")
      [] step = "client"    -> Wrap(PlainError("new client"), "create new client")
      [] step = "docker"    -> Wrap(PlainError("new docker client"), "create docker client")

\* resolveDependency returning the record built so far next to the error
resolveDependencyPartial(answer, decl, rclient, failing) ==
    IF failing \in AttemptedSteps(decl)
    THEN [dep |-> [NilData EXCEPT !.ID = GetDependencyID(decl)],
          err |-> StepError(failing)]
    ELSE [dep |-> [ID |-> GetDependencyID(decl),
                   IgnoreDependencies |-> decl.IgnoreDependencies,
                   Namespace |-> decl.Namespace,
                   SkipBuild |-> decl.SkipBuild,
                   Images |-> Images(decl),
                   Dependencies |-> answer.deps,
                   kubeClient |-> DependencyClient(rclient, decl)],
          err |-> NoError]

\* resolveDependency: the Dependency record of a declaration, or nil and the
\* error of the first step that fails; `failing' is the step whose
\* collaborator fails, "none" when none does
resolveDependency(answer, decl, rclient, failing) ==
    IF failing = "download" THEN [dep |-> NilData, err |-> StepError(failing)]
    ELSE IF failing = "clone" THEN [dep |-> NilData, err |-> StepError(failing)]
    ELSE IF failing = "config" THEN [dep |-> NilData, err |-> StepError(failing)]
    ELSE IF failing = "commands" THEN [dep |-> NilData, err |-> StepError(failing)]
    ELSE IF failing = "generated" THEN [dep |-> NilData, err |-> StepError(failing)]
    ELSE IF decl.Namespace # "" /\ failing = "client"
    THEN [dep |-> NilData, err |-> StepError(failing)]
    ELSE IF failing = "docker" THEN [dep |-> NilData, err |-> StepError(failing)]
    ELSE [dep |-> [ID |-> DownloadDependency(decl),
                   IgnoreDependencies |-> decl.IgnoreDependencies,
                   Namespace |-> decl.Namespace,
                   SkipBuild |-> decl.SkipBuild,
                   Images |-> Images(decl),
                   Dependencies |-> answer.deps,
                   kubeClient |-> DependencyClient(rclient, decl)],
          err |-> NoError]

\* LinkExistingNode with the edge to the existing node forgotten
LinkExistingNodeNoEdge(g, parentID, ID, allowCyclic) ==
    LET r == addEdge(g, parentID, ID)
    IN  IF r.err = NoError THEN [g |-> g, err |-> NoError, edge |-> r.err]
        ELSE IF IsCyclicError(r.err)
        THEN IF ~allowCyclic
             THEN [g |-> g, err |-> r.err, edge |-> r.err]
             ELSE [g |-> g, err |-> NoError, edge |-> r.err]
        ELSE [g |-> g, err |-> r.err, edge |-> r.err]

\* LinkExistingNode recording the link of a tolerated cycle as an edge
LinkExistingNodeCycleEdge(g, parentID, ID, allowCyclic) ==
    LET r == addEdge(g, parentID, ID)
    IN  IF r.err = NoError THEN [g |-> r.g, err |-> NoError, edge |-> r.err]
        ELSE IF IsCyclicError(r.err)
        THEN IF ~allowCyclic
             THEN [g |-> r.g, err |-> r.err, edge |-> r.err]
             ELSE [g |-> [g EXCEPT !.Childs[parentID] = Append(@, ID)],
                   err |-> NoError, edge |-> r.err]
        ELSE [g |-> r.g, err |-> r.err, edge |-> r.err]

\* LinkExistingNode that makes a new record for the existing node
LinkExistingNodeReplacing(g, parentID, ID, allowCyclic) ==
    LET r == addEdge(g, parentID, ID)
        h == [r.g EXCEPT !.Data[ID] = [NilData EXCEPT !.ID = ID]]
    IN  IF r.err = NoError THEN [g |-> h, err |-> NoError, edge |-> r.err]
        ELSE IF IsCyclicError(r.err)
        THEN IF ~allowCyclic
             THEN [g |-> h, err |-> r.err, edge |-> r.err]
             ELSE [g |-> h, err |-> NoError, edge |-> r.err]
        ELSE [g |-> h, err |-> r.err, edge |-> r.err]

\* resolveRecursive, the branch for an identity that is in the graph: the
\* graph afterwards, the error returned (nil when the loop goes on) and the
\* error addEdge gave
LinkExistingNode(g, parentID, ID, allowCyclic) ==
    LET r == addEdge(g, parentID, ID)
    IN  IF r.err = NoError THEN [g |-> r.g, err |-> NoError, edge |-> r.err]
        ELSE IF IsCyclicError(r.err)
        THEN IF ~allowCyclic
             THEN [g |-> r.g, err |-> r.err, edge |-> r.err]
             ELSE [g |-> r.g, err |-> NoError, edge |-> r.err]
        ELSE [g |-> r.g, err |-> r.err, edge |-> r.err]

\* InsertNewNode that names the new identity as the parent
InsertNewNodeUnderItself(g, parentID, ID, dep) ==
    LET r == insertNodeAt(g, ID, ID, dep)
    IN  IF r.err # NoError
        THEN [g |-> r.g, err |-> Wrap(r.err, "insert node")]
        ELSE [g |-> r.g, err |-> NoError]

\* resolveRecursive, the branch for a new identity after resolveDependency
\* succeeded: insert the node under the parent
InsertNewNode(g, parentID, ID, dep) ==
    LET r == insertNodeAt(g, parentID, ID, dep)
    IN  IF r.err # NoError
        THEN [g |-> r.g, err |-> Wrap(r.err, "insert node")]
        ELSE [g |-> r.g, err |-> NoError]

\* RecurseInto with the ignoreDependencies flag of the declaration unread
RecurseIntoAlways(decl, dep) ==
    Len(dep.Dependencies) > 0

\* resolveRecursive: are the declarations of the new dependency resolved too
RecurseInto(decl, dep) ==
    ~decl.IgnoreDependencies /\ Len(dep.Dependencies) > 0

\* DescentError with the cycle error wrapped like every other error
DescentErrorAlwaysWrapped(err) == Wrap(err, "resolve dependencies recursive")

\* Resolve: the error returned for an error of the descent
DescentError(err) ==
    IF IsCyclicError(err) THEN err
    ELSE Wrap(err, "resolve dependencies recursive")

\* the frames after the current declaration of the innermost call is done
Advance(st) == [st EXCEPT ![Len(st)].i = @ + 1]

\* Descend with the new call put off until the calls before it return
DescendLater(st, ID, deps) == <<Frame(ID, deps)>> \o Advance(st)

\* resolveRecursive: the call for the declarations of the new dependency
\* runs to its return before the loop of the caller goes on
Descend(st, ID, deps) == Append(Advance(st), Frame(ID, deps))

\* AppendDependency putting the dependency at the front of the list
PrependDependency(ret, data) == <<data>> \o ret

\* buildDependencyQueue: retDependencies = append(retDependencies, next.Data)
AppendDependency(ret, data) == Append(ret, data)

ErrKind(err) == IF err = NoError THEN "none" ELSE err.kind

\* what a finished Resolve call returned: the identities and the kind of error
Outcome == [result |-> IF result.isNil THEN NilList ELSE List(IDsOf(result.deps)),
            err |-> ErrKind(retErr), fresh |-> fresh]

(* ----------------------------- actions --------------------------------- *)

\* a resolver just constructed over some root configuration, nothing loaded
Start ==
    /\ AllowCyclic \in BOOLEAN
    /\ baseDeps \in ListsAfter([n \in Ids |-> Unloaded], <<>>)
    /\ world = [n \in Ids |-> Unloaded]
    /\ saveOutcome = "unknown"
    /\ graph = newGraph(RootID)
    /\ stack = <<>>
    /\ pc = "idle"
    /\ retDependencies = <<>>
    /\ result = NilList
    /\ retErr = NoError
    /\ materialized = [n \in Ids |-> 0]
    /\ saves = 0
    /\ declared = {}
    /\ built = newGraph(RootID)
    /\ edgeErr = NoError
    /\ errPhase = "none"
    /\ calls = 0
    /\ prev = NoOutcome
    /\ fresh = TRUE
    /\ order = <<>>

\* NewResolver over declarations that set neither a namespace nor
\* skipBuild, for dependencies whose acquisition is what may fail
Init ==
    /\ nsLimit = 0
    /\ failSteps = {"download"}
    /\ client = RootClient
    /\ Start
    /\ NoTerminal

\* NewResolver over declarations that may set a namespace and skipBuild,
\* with or without a client of the resolver's own, for dependencies any
\* step of whose materialization may fail
NamespaceInit ==
    /\ nsLimit = MaxNamespace
    /\ failSteps = Range(Steps)
    /\ client \in {NilClient, RootClient}
    /\ Start
    /\ NoTerminal

\* NewResolver after a finished call: another resolver for the same project
NewResolver ==
    /\ pc = "done"
    /\ calls < MaxCalls
    /\ graph' = NewResolverGraph(graph)
    /\ pc' = "idle"
    /\ prev' = Outcome
    /\ fresh' = TRUE
    /\ result' = NilList
    /\ retErr' = NoError
    /\ retDependencies' = <<>>
    /\ materialized' = [n \in Ids |-> 0]
    /\ saves' = 0
    /\ declared' = {}
    /\ built' = newGraph(RootID)
    /\ edgeErr' = NoError
    /\ errPhase' = "none"
    /\ order' = <<>>
    /\ UNCHANGED <<terminal, inputs, world, saveOutcome, stack, calls>>

\* Resolve is called: resolveRecursive(cwd, Root.ID, BaseConfig.Dependencies)
Resolve ==
    /\ pc \in {"idle", "done"}
    /\ calls < MaxCalls
    /\ calls' = calls + 1
    /\ prev' = IF pc = "done" THEN Outcome ELSE prev
    /\ fresh' = (pc = "idle")
    /\ stack' = <<Frame(graph.Root, baseDeps)>>
    /\ pc' = "descend"
    /\ retDependencies' = <<>>
    /\ result' = NilList
    /\ retErr' = NoError
    /\ materialized' = [n \in Ids |-> 0]
    /\ saves' = 0
    /\ declared' = {}
    /\ built' = newGraph(RootID)
    /\ edgeErr' = NoError
    /\ errPhase' = "none"
    /\ order' = <<>>
    /\ UNCHANGED <<terminal, inputs, world, saveOutcome, graph>>

\* Fail with the base cache saved on the way out
FailSaving(err, g) ==
    /\ graph' = g
    /\ stack' = <<>>
    /\ pc' = "done"
    /\ result' = NilList
    /\ retErr' = DescentError(err)
    /\ errPhase' = "descent"
    /\ saves' = saves + 1

\* Fail with the error dropped and the loop going on
FailContinue(err, g) ==
    /\ graph' = g
    /\ stack' = Advance(stack)
    /\ UNCHANGED <<pc, result, retErr, errPhase, saves>>

\* the descent ends with err: every resolveRecursive call returns it and
\* Resolve returns nil and the error
Fail(err, g) ==
    /\ graph' = g
    /\ stack' = <<>>
    /\ pc' = "done"
    /\ result' = NilList
    /\ retErr' = DescentError(err)
    /\ errPhase' = "descent"
    /\ saves' = saves

\* one turn of the loop for an identity that is in the graph already
LinkExisting ==
    /\ pc = "descend"
    /\ stack # <<>>
    /\ Top.i <= Len(Top.deps)
    /\ LET decl == Top.deps[Top.i]
           ID   == GetDependencyID(decl)
           r    == LinkExistingNode(graph, Top.parentID, ID, AllowCyclic)
       IN  /\ ID \in graph.Nodes
           /\ declared' = declared \cup {<<Top.parentID, ID>>}
           /\ edgeErr' = IF r.edge # NoError THEN r.edge ELSE edgeErr
           /\ IF r.err # NoError
              THEN Fail(r.err, r.g)
              ELSE /\ graph' = r.g
                   /\ stack' = Advance(stack)
                   /\ UNCHANGED <<pc, result, retErr, errPhase, saves>>
    /\ UNCHANGED <<terminal, inputs, world, saveOutcome, retDependencies, materialized,
                   built, calls, prev, fresh, order>>

\* one turn of the loop for a new identity: resolveDependency, insertNodeAt
\* and the call for the declarations of the new dependency
ResolveNew ==
    /\ pc = "descend"
    /\ stack # <<>>
    /\ Top.i <= Len(Top.deps)
    /\ LET decl == Top.deps[Top.i]
           ID   == GetDependencyID(decl)
       IN  /\ ID \notin graph.Nodes
           /\ \E answer \in (IF world[ID].loaded THEN {world[ID]}
                             ELSE Answers(world, baseDeps)) :
              \E failing \in (IF answer.ok THEN {"none"}
                              ELSE AttemptedSteps(decl) \cap failSteps) :
                LET d   == resolveDependency(answer, decl, client, failing)
                    ins == InsertNewNode(graph, Top.parentID, ID, d.dep)
                IN  /\ world' = [world EXCEPT ![ID] = answer]
                    /\ materialized' = [materialized EXCEPT ![ID] = @ + 1]
                    /\ order' = Append(order, ID)
                    /\ declared' = declared \cup {<<Top.parentID, ID>>}
                    /\ IF d.err # NoError
                       THEN Fail(d.err, graph)
                       ELSE IF ins.err # NoError
                       THEN Fail(ins.err, ins.g)
                       ELSE /\ graph' = ins.g
                            /\ stack' = IF RecurseInto(decl, d.dep)
                                        THEN Descend(stack, ID, d.dep.Dependencies)
                                        ELSE Advance(stack)
                            /\ UNCHANGED <<pc, result, retErr, errPhase, saves>>
    /\ UNCHANGED <<terminal, inputs, saveOutcome, retDependencies, built, edgeErr,
                   calls, prev, fresh>>

\* the loop of the innermost resolveRecursive call is over: return nil
ReturnNil ==
    /\ pc = "descend"
    /\ stack # <<>>
    /\ Top.i > Len(Top.deps)
    /\ stack' = SubSeq(stack, 1, Len(stack) - 1)
    /\ pc' = IF Len(stack) = 1 THEN "save" ELSE "descend"
    /\ built' = IF Len(stack) = 1 THEN graph ELSE built
    /\ UNCHANGED <<terminal, inputs, world, saveOutcome, graph, retDependencies, result,
                   retErr, materialized, saves, declared, edgeErr, errPhase,
                   calls, prev, fresh, order>>

\* SaveFailed with the error of Save unread
SaveFailedIgnored(o) == FALSE

\* Resolve, the check after generatedSaver.Save: err != nil
SaveFailed(o) == o # "ok"

\* r.generatedSaver.Save(r.BaseCache)
SaveCache ==
    /\ pc = "save"
    /\ \E o \in (IF saveOutcome = "unknown" THEN {"ok", "fail"} ELSE {saveOutcome}) :
         /\ saveOutcome' = o
         /\ saves' = saves + 1
         /\ IF ~SaveFailed(o)
            THEN /\ pc' = "drain"
                 /\ UNCHANGED <<result, retErr, errPhase>>
            ELSE /\ pc' = "done"
                 /\ result' = NilList
                 /\ retErr' = PlainError("save")
                 /\ errPhase' = "save"
    /\ UNCHANGED <<terminal, inputs, world, graph, stack, retDependencies, materialized,
                   declared, built, edgeErr, calls, prev, fresh, order>>

\* MoreNodes that stops one node early
MoreNodesButOne(g) == Cardinality(g.Nodes) > 2

\* buildDependencyQueue, the condition of its loop: len(Nodes) > 1
MoreNodes(g) == Cardinality(g.Nodes) > 1

\* RemoveNext that only deletes the key from the node map
RemoveNextFromMap(g, next) ==
    [g |-> [g EXCEPT !.Nodes = @ \ {next}], err |-> NoError]

\* buildDependencyQueue: r.DependencyGraph.removeNode(next.ID)
RemoveNext(g, next) == removeNode(g, next)

\* one turn of the loop of buildDependencyQueue
DrainStep ==
    /\ pc = "drain"
    /\ MoreNodes(graph)
    /\ LET next == getNextLeaf(graph, graph.Root)
           r    == RemoveNext(graph, next)
       IN  /\ next # graph.Root
           /\ graph' = r.g
           /\ IF r.err # NoError
              THEN /\ pc' = "done"
                   /\ result' = NilList
                   /\ retErr' = r.err
                   /\ errPhase' = "drain"
                   /\ UNCHANGED retDependencies
              ELSE /\ retDependencies' = AppendDependency(retDependencies, graph.Data[next])
                   /\ UNCHANGED <<pc, result, retErr, errPhase>>
    /\ UNCHANGED <<terminal, inputs, world, saveOutcome, stack, materialized, saves,
                   declared, built, edgeErr, calls, prev, fresh, order>>

\* the loop of buildDependencyQueue is over: return retDependencies, nil
DrainDone ==
    /\ pc = "drain"
    /\ \/ ~MoreNodes(graph)
       \/ getNextLeaf(graph, graph.Root) = graph.Root
    /\ pc' = "done"
    /\ result' = List(retDependencies)
    /\ retErr' = NoError
    /\ UNCHANGED <<terminal, inputs, world, saveOutcome, graph, stack, retDependencies,
                   materialized, saves, declared, built, edgeErr, errPhase,
                   calls, prev, fresh, order>>

Next ==
    \/ NewResolver
    \/ Resolve
    \/ LinkExisting
    \/ ResolveNew
    \/ ReturnNil
    \/ SaveCache
    \/ DrainStep
    \/ DrainDone

Spec == Init /\ [][Next]_vars

\* A Resolve call runs on one thread to its return: a step of the call that
\* can be taken is taken.  When Resolve or NewResolver is called is up to
\* the caller.
CallStep ==
    LinkExisting \/ ResolveNew \/ ReturnNil \/ SaveCache \/ DrainStep \/ DrainDone

FairSpec == Spec /\ WF_vars(CallStep)

NamespaceSpec == NamespaceInit /\ [][Next]_vars


(* ------------------------- reference notions --------------------------- *)

\* the descent of this call has returned nil and `built' is the graph it left
DescentOver ==
    \/ pc \in {"save", "drain"}
    \/ pc = "done" /\ errPhase # "descent"

\* this call has returned a list
Returned == pc = "done" /\ ~result.isNil

\* the identities of the returned list
ResultIDs == IDsOf(result.deps)

\* how often x occurs in the sequence s
Count(s, x) == Cardinality({i \in 1..Len(s) : s[i] = x})

\* no collaborator has failed so far
NoCollaboratorFailure ==
    /\ \A n \in Ids : world[n].loaded => world[n].ok
    /\ saveOutcome # "fail"

\* every identity reachable from the root's declarations over all the
\* declarations of the configurations loaded
RECURSIVE DeclReach(_)
DeclReach(S) ==
    LET N == S \cup UNION {{world[n].deps[i].Source : i \in 1..Len(world[n].deps)} : n \in S}
    IN  IF N = S THEN S ELSE DeclReach(N)

AllDeclared == DeclReach({baseDeps[i].Source : i \in 1..Len(baseDeps)})

\* Depth-first walk over the declarations, in their order, from the list
\* deps[i..]: an identity is visited where it is named first, its own
\* declarations are walked unless the declaration naming it first
\* sets ignoreDependencies, and it is put on `post' when its walk is complete.
RECURSIVE DeclWalk(_, _, _, _)
DeclWalk(deps, i, visited, post) ==
    IF i > Len(deps) THEN [visited |-> visited, post |-> post]
    ELSE LET id == deps[i].Source
         IN  IF id \in visited THEN DeclWalk(deps, i + 1, visited, post)
             ELSE LET sub == IF deps[i].IgnoreDependencies
                             THEN [visited |-> visited \cup {id}, post |-> post]
                             ELSE DeclWalk(world[id].deps, 1, visited \cup {id}, post)
                  IN  DeclWalk(deps, i + 1, sub.visited, Append(sub.post, id))

\* post-order of the walk over the declarations from the root
DeclPostOrder == DeclWalk(baseDeps, 1, {}, <<>>).post

\* Depth-first walk over the graph g from node n, children in their order:
\* a node is put on `post' when all its children are complete.
RECURSIVE GraphWalk(_, _, _, _)
RECURSIVE GraphWalkChilds(_, _, _, _, _)
GraphWalk(g, n, visited, post) ==
    LET sub == GraphWalkChilds(g, g.Childs[n], 1, visited \cup {n}, post)
    IN  [visited |-> sub.visited,
         post |-> IF n = g.Root THEN sub.post ELSE Append(sub.post, n)]

GraphWalkChilds(g, cs, i, visited, post) ==
    IF i > Len(cs) THEN [visited |-> visited, post |-> post]
    ELSE IF cs[i] \in visited THEN GraphWalkChilds(g, cs, i + 1, visited, post)
    ELSE LET sub == GraphWalk(g, cs[i], visited, post)
         IN  GraphWalkChilds(g, cs, i + 1, sub.visited, sub.post)

\* post-order of the walk over the graph from its root
GraphPostOrder(g) == GraphWalk(g, g.Root, {}, <<>>).post

\* a step of a Resolve call is pending
Running == pc \in {"descend", "save", "drain"}

\* the innermost resolveRecursive call is about to process a declaration
AtDeclaration == pc = "descend" /\ stack # <<>> /\ Top.i <= Len(Top.deps)

\* the identity of that declaration
CurrentID == Top.deps[Top.i].Source

\* that declaration names a node of the graph that has a path to the parent
ClosesCycle ==
    /\ AtDeclaration
    /\ CurrentID \in graph.Nodes
    /\ HasPath(graph, CurrentID, Top.parentID)

(* ------------------------------ claims --------------------------------- *)

\* C1: within one Resolve call resolveDependency runs at most once per
\* identity, no identity has two Dependency records (a node of the graph and
\* the entries of the list under construction never share an identity), and
\* once the descent is over every declaration that was processed has its edge
\* parent -> identity in the graph unless that link would close a cycle.
C1_Deduplication ==
    /\ \A n \in Ids : materialized[n] <= 1
    /\ \A n \in Ids : Count(IDsOf(retDependencies), n) + (IF n \in graph.Nodes THEN 1 ELSE 0) <= 1
    /\ DescentOver =>
         \A pd \in declared :
            \/ pd[2] \in Range(built.Childs[pd[1]])
            \/ HasPath(built, pd[2], pd[1])

\* C1 witness: a shared dependency, materialized once, with two parents
C1_Witness ==
    /\ Returned
    /\ \E d \in Ids : \E p1, p2 \in AllIds :
          /\ p1 # p2
          /\ d \in Range(built.Childs[p1])
          /\ d \in Range(built.Childs[p2])
          /\ materialized[d] = 1
          /\ Count(ResultIDs, d) = 1

\* C2: every edge parent -> child of the graph the descent left has the child
\* strictly before the parent in the returned list (the root is no entry of
\* the list; its children are entries).
C2_LeafBeforeParent ==
    Returned =>
        \A p \in built.Nodes : \A c \in Range(built.Childs[p]) :
            /\ Count(ResultIDs, c) = 1
            /\ p # RootID =>
                 /\ Count(ResultIDs, p) = 1
                 /\ IndexOf(ResultIDs, c) < IndexOf(ResultIDs, p)

\* C2 witness: a list was returned for a graph with an edge between two
\* dependencies
C2_Witness ==
    /\ Returned
    /\ \E p \in Ids : built.Childs[p] # <<>>

\* C3 (state part): the cycle error of addEdge is what Resolve returned, and
\* every other error of the descent was wrapped
C3_CycleErrorVerbatim ==
    /\ (~AllowCyclic /\ IsCyclicError(edgeErr)) =>
          /\ pc = "done"
          /\ result = NilList
          /\ retErr = edgeErr
          /\ retErr.wraps = <<>>
    /\ (pc = "done" /\ errPhase = "descent" /\ ~(~AllowCyclic /\ IsCyclicError(edgeErr))) =>
          /\ result = NilList
          /\ retErr.kind = "error"
          /\ retErr.wraps # <<>>

\* C3: with cycle tolerance disabled, the step for a declaration naming a
\* node that has a path to the declaring node ends the call: Resolve returns
\* nil and the very cycle error addEdge produced, not wrapped; every other
\* error of the descent is returned wrapped.
C3_CycleRejected ==
    /\ [](C3_CycleErrorVerbatim)
    /\ [][(~AllowCyclic /\ ClosesCycle) =>
            /\ pc' = "done"
            /\ result' = NilList
            /\ retErr' = CyclicError(<<CurrentID, Top.parentID>>)
            /\ retErr' = edgeErr']_vars

\* C3 witness: Resolve returned a cycle error for a declaration two levels down
C3_Witness ==
    /\ pc = "done"
    /\ ~AllowCyclic
    /\ IsCyclicError(retErr)
    /\ Cardinality(graph.Nodes) >= 3

C4_ListOfWalk ==
    (AllowCyclic /\ pc = "done" /\ NoCollaboratorFailure) =>
        /\ ~result.isNil
        /\ \A n \in Ids :
              Count(ResultIDs, n) = (IF n \in Range(DeclPostOrder) THEN 1 ELSE 0)

C5_ToleratedCycleDropped ==
    [][(AllowCyclic /\ ClosesCycle) =>
          /\ graph' = graph
          /\ materialized' = materialized
          /\ world' = world
          /\ pc' = "descend"
          /\ stack' = [stack EXCEPT ![Len(stack)].i = @ + 1]
          /\ retErr' = NoError]_vars

\* C5 witness: a cycle error was tolerated and the descent went on to a
\* later sibling, which was materialized
C5_Witness ==
    /\ AllowCyclic
    /\ IsCyclicError(edgeErr)
    /\ \E f \in Range(stack) :
          /\ f.i = 3
          /\ HasPath(graph, f.deps[1].Source, f.parentID)
          /\ f.deps[2].Source \in graph.Nodes
          /\ ~HasPath(graph, f.deps[2].Source, f.parentID)

\* C6: in one Resolve call the base cache is saved at most once, only after
\* the descent has returned nil and before anything is drained; a call
\* whose descent fails never saves.
C6_SaveAfterDescent ==
    /\ saves <= 1
    /\ saves = 1 => (pc \in {"drain", "done"} /\ DescentOver /\ stack = <<>>)
    /\ saves = 0 => (retDependencies = <<>> /\ pc # "drain" /\ result.isNil)
    /\ (pc = "done" /\ errPhase = "descent") => saves = 0

\* C6 witness: a call that failed on an untolerated cycle without a save
C6_Witness ==
    /\ pc = "done"
    /\ IsCyclicError(retErr)
    /\ saves = 0
    /\ Cardinality(graph.Nodes) >= 2

\* the declaration about to be processed fails in this step: its Materializer
\* fails or its link closes a cycle that is not tolerated
DeclarationFails ==
    /\ AtDeclaration
    /\ \/ CurrentID \notin graph.Nodes /\ ~world'[CurrentID].ok
       \/ ClosesCycle /\ ~AllowCyclic

\* C7 (state part): a call that met an error has returned nil and an error,
\* with no resolveRecursive call left, whatever was collected
C7_NoPartialResult ==
    /\ pc = "done" => (result.isNil <=> retErr # NoError)
    /\ errPhase # "none" =>
          /\ pc = "done"
          /\ result = NilList
          /\ retErr # NoError
          /\ stack = <<>>

Diamond ==
    /\ IDsOf([i \in 1..Len(baseDeps) |-> [ID |-> baseDeps[i].Source]]) = <<1, 2>>
    /\ \A i \in 1..Len(baseDeps) : ~baseDeps[i].IgnoreDependencies
    /\ world[1] = [loaded |-> TRUE, ok |-> TRUE,
                   deps |-> <<[Source |-> 3, IgnoreDependencies |-> FALSE,
                              Namespace |-> "", SkipBuild |-> FALSE]>>]
    /\ world[2] = world[1]
    /\ world[3] = [loaded |-> TRUE, ok |-> TRUE, deps |-> <<>>]

\* C8: the returned list is the post-order of the depth-first walk from the
\* root over the graph the descent left, children in edge-insertion order,
\* each identity once; on the first call of a resolver it is the post-order
\* of the walk over the declarations; for the diamond it is [R, P, Q].
C8_PostOrder ==
    Returned =>
        /\ ResultIDs = GraphPostOrder(built)
        /\ fresh => ResultIDs = DeclPostOrder
        /\ Diamond => ResultIDs = <<3, 1, 2>>

\* C8 witness: the diamond resolved to [R, P, Q]
C8_Witness ==
    /\ Returned
    /\ Diamond
    /\ ResultIDs = <<3, 1, 2>>

C10_Idempotent ==
    (pc = "done" /\ ~fresh /\ NoCollaboratorFailure) =>
        /\ Outcome.result = prev.result
        /\ Outcome.err = prev.err

(* ------------------------------ C11 ------------------------------------ *)

\* the identities a list of declarations names
Sources(deps) == {deps[i].Source : i \in 1..Len(deps)}

\* the graph as the descent left it: the graph itself until the descent has
\* returned nil, the graph kept from that moment afterwards
Resolved == IF DescentOver THEN built ELSE graph

\* the identities in the list under construction or returned
Listed == Range(IDsOf(retDependencies)) \cup Range(IDsOf(result.deps))

\* C11 as stated: once a declaration with ignoreDependencies set has made a
\* dependency, no other identity that the configuration of that dependency
\* declares is in the graph or in the list.
C11_IgnoredNeverAppear ==
    \A n \in Resolved.Nodes \ {RootID} :
        Resolved.Data[n].IgnoreDependencies =>
            \A z \in Sources(world[n].deps) \ {n} :
                z \notin Resolved.Nodes /\ z \notin Listed

\* C11: a dependency made by a declaration with ignoreDependencies set has no
\* outgoing edge, and an identity is in the graph or in the list only if the
\* root configuration declares it or the configuration of a dependency made
\* by a declaration without the flag declares it.
C11_IgnoredNotFollowed ==
    /\ \A n \in Resolved.Nodes \ {RootID} :
           Resolved.Data[n].IgnoreDependencies => Resolved.Childs[n] = <<>>
    /\ \A z \in Resolved.Nodes \ {RootID} :
           \/ z \in Sources(baseDeps)
           \/ \E p \in Resolved.Nodes \ {RootID} :
                  /\ ~Resolved.Data[p].IgnoreDependencies
                  /\ z \in Sources(world[p].deps)
    /\ Listed \subseteq Resolved.Nodes \ {RootID}

\* C11 witness: a list was returned, and a dependency in it was made by a
\* declaration with the flag set while its configuration declares an
\* identity that nothing else declares and that is not in the list
C11_Witness ==
    /\ Returned
    /\ \E n \in built.Nodes \ {RootID} :
           /\ built.Data[n].IgnoreDependencies
           /\ n \in Range(ResultIDs)
           /\ \E z \in Sources(world[n].deps) \ {n} :
                  z \notin built.Nodes /\ z \notin Range(ResultIDs)

(* ------------------------------ C12 ------------------------------------ *)

\* no declaration
NoDecl == [Source |-> RootID, IgnoreDependencies |-> FALSE, Namespace |-> "",
           SkipBuild |-> FALSE]

\* Depth-first walk over the declarations from the list deps[i..], as
\* DeclWalk, that keeps for each identity the declaration naming it first.
RECURSIVE FirstDecls(_, _, _)
FirstDecls(deps, i, first) ==
    IF i > Len(deps) THEN first
    ELSE LET id == deps[i].Source
         IN  IF first[id] # NoDecl THEN FirstDecls(deps, i + 1, first)
             ELSE LET here == [first EXCEPT ![id] = deps[i]]
                      sub  == IF deps[i].IgnoreDependencies THEN here
                              ELSE FirstDecls(world[id].deps, 1, here)
                  IN  FirstDecls(deps, i + 1, sub)

MaterializingDecl == FirstDecls(baseDeps, 1, [n \in Ids |-> NoDecl])

\* the declarations a call has processed when it returns a list: the root's
\* and those of the dependencies whose nested declarations were resolved
ProcessedDecls ==
    Range(baseDeps)
    \cup UNION {Range(world[p].deps) :
                    p \in {n \in built.Nodes \ {RootID} :
                              ~built.Data[n].IgnoreDependencies}}

\* C12 as stated: for every declaration that sets a namespace, the record
\* returned for its identity has a client bound to that namespace.
C12_EveryNamespaceBound ==
    (Returned /\ fresh) =>
        \A d \in ProcessedDecls :
            d.Namespace # "" =>
                \E i \in 1..Len(result.deps) :
                    /\ result.deps[i].ID = GetDependencyID(d)
                    /\ result.deps[i].kubeClient.namespace = d.Namespace

\* the client of every record is a new client bound to the namespace of the
\* declaration kept in the record, under the context of the resolver's
\* client, or the resolver's client itself when that declaration sets none
C12_ClientOfRecord ==
    \A n \in Resolved.Nodes \ {RootID} :
        LET d == Resolved.Data[n]
        IN  IF d.Namespace # ""
            THEN /\ d.kubeClient.obj = "new"
                 /\ d.kubeClient.namespace = d.Namespace
                 /\ d.kubeClient.context = client.context
            ELSE d.kubeClient = client

\* the records returned are those of the nodes, and the declaration kept in
\* a record is the one naming its identity first in depth-first order
C12_RecordOfFirstDeclaration ==
    (Returned /\ fresh) =>
        \A i \in 1..Len(result.deps) :
            LET d == result.deps[i]
            IN  /\ d = built.Data[d.ID]
                /\ d.Namespace = MaterializingDecl[d.ID].Namespace
                /\ d.IgnoreDependencies = MaterializingDecl[d.ID].IgnoreDependencies

\* C12: the record Resolve returns for an identity has its client bound to
\* the namespace of the declaration that names the identity first in
\* depth-first order when that declaration sets one, and holds the
\* resolver's own client otherwise; the resolver's client is never replaced.
C12_NamespaceOverride ==
    /\ [](C12_ClientOfRecord /\ C12_RecordOfFirstDeclaration)
    /\ [][client' = client]_vars

\* C12 witness: a resolver with a client of its own returned a list with a
\* record bound to the namespace "other" and a record holding the
\* resolver's client
C12_Witness ==
    /\ Returned
    /\ fresh
    /\ client = RootClient
    /\ \E i, j \in 1..Len(result.deps) :
           /\ result.deps[i].Namespace = "other"
           /\ result.deps[i].kubeClient = NewClientFromContext("ctx", "other")
           /\ result.deps[j].kubeClient = client

(* ------------------------------ C13 ------------------------------------ *)

\* the identities of the non-root nodes of a graph
NonRoot(g) == g.Nodes \ {g.Root}

\* while the graph is drained the list under construction and the graph
\* share out the non-root nodes the descent left, each node in one of them
\* and each identity in the list once; the root stays and is not listed;
\* getNextLeaf answers the root only when the root is alone; no turn fails;
\* the list returned is as long as the non-root nodes the descent left are
\* many, and the graph is then the root without an edge
C13_DrainState ==
    /\ graph.Root \in graph.Nodes
    /\ graph.Root \notin Listed
    /\ errPhase # "drain"
    /\ pc = "drain" =>
           /\ Range(IDsOf(retDependencies)) \cup NonRoot(graph) = NonRoot(built)
           /\ Range(IDsOf(retDependencies)) \cap NonRoot(graph) = {}
           /\ \A n \in NonRoot(built) : Count(IDsOf(retDependencies), n) <= 1
           /\ getNextLeaf(graph, graph.Root) = graph.Root => NonRoot(graph) = {}
    /\ Returned =>
           /\ Len(result.deps) = Cardinality(NonRoot(built))
           /\ \A n \in NonRoot(built) : Count(ResultIDs, n) = 1
           /\ graph.Nodes = {graph.Root}
           /\ graph.Childs[graph.Root] = <<>>

\* C13: after a descent and a save that succeeded the loop of
\* buildDependencyQueue ends and Resolve returns a list; the list holds every
\* non-root node of the graph the descent left once, the graph is the root
\* alone afterwards, and the root is never removed nor listed.
C13_DrainCompleteness ==
    /\ [](C13_DrainState)
    /\ (pc = "drain") ~> Returned

\* C13 witness: a list of three dependencies was returned, and the graph is
\* the root alone
C13_Witness ==
    /\ Returned
    /\ Cardinality(NonRoot(built)) = 3
    /\ Len(result.deps) = 3
    /\ graph.Nodes = {graph.Root}

(* ------------------------------ C14 ------------------------------------ *)

\* a failed Save ends the call with a nil list and the error of Save as it
\* is, the graph as the descent left it and no list under construction
C14_SaveStep ==
    (pc = "save" /\ saveOutcome' = "fail") =>
        /\ pc' = "done"
        /\ result' = NilList
        /\ retErr' = PlainError("save")
        /\ graph' = graph
        /\ retDependencies' = <<>>

\* C14: when saving the base cache fails after a descent that succeeded,
\* Resolve returns the error of Save and a nil list, and the graph is not
\* drained: it stays as the descent left it and no list is built.
C14_SaveFailureFatal ==
    /\ [][C14_SaveStep]_vars
    /\ []((pc = "done" /\ errPhase = "save") =>
              /\ result = NilList
              /\ retErr = PlainError("save")
              /\ graph = built
              /\ retDependencies = <<>>)
    /\ [](saveOutcome = "fail" => ~Returned)

\* C14 witness: Save failed after a descent that left two dependencies in
\* the graph, and they are still there
C14_Witness ==
    /\ pc = "done"
    /\ errPhase = "save"
    /\ saveOutcome = "fail"
    /\ Cardinality(NonRoot(graph)) = 2
    /\ graph = built

(* -------------------- the graph store on its own ----------------------- *)

\* the edges of a graph
Edges(g) == {<<n, c>> \in AllIds \X AllIds : c \in Range(g.Childs[n])}

\* the transitive closure of a relation over the identities
RECURSIVE Closure(_)
Closure(R) ==
    LET RR == R \cup {<<x, z>> \in AllIds \X AllIds :
                         \E y \in AllIds : <<x, y>> \in R /\ <<y, z>> \in R}
    IN  IF RR = R THEN R ELSE Closure(RR)

\* s is t or the beginning of t
IsPrefix(s, t) == Len(s) <= Len(t) /\ s = SubSeq(t, 1, Len(s))

\* the payload a caller hands to insertNodeAt for the identity id
Payload(id) == [NilData EXCEPT !.ID = id]

\* a graph just made, no resolver at work
GraphInit ==
    /\ Init
    /\ AllowCyclic = FALSE
    /\ baseDeps = <<>>

\* insertNodeAt called with any parent and any identity, while the graph
\* has fewer than MaxEdges edges
GraphInsert ==
    /\ Cardinality(Edges(graph)) < MaxEdges
    /\ \E parentID \in AllIds, id \in AllIds :
           graph' = insertNodeAt(graph, parentID, id, Payload(id)).g
    /\ UNCHANGED <<terminal, inputs, world, saveOutcome, stack, pc, retDependencies,
                   result, retErr, materialized, saves, declared, built,
                   edgeErr, errPhase, calls, prev, fresh, order>>

\* addEdge called with any two identities, while the graph has fewer than
\* MaxEdges edges
GraphAddEdge ==
    /\ Cardinality(Edges(graph)) < MaxEdges
    /\ \E fromID \in AllIds, toID \in AllIds :
           graph' = addEdge(graph, fromID, toID).g
    /\ UNCHANGED <<terminal, inputs, world, saveOutcome, stack, pc, retDependencies,
                   result, retErr, materialized, saves, declared, built,
                   edgeErr, errPhase, calls, prev, fresh, order>>

\* removeNode called with any identity
GraphRemove ==
    /\ \E id \in AllIds :
           graph' = removeNode(graph, id).g
    /\ UNCHANGED <<terminal, inputs, world, saveOutcome, stack, pc, retDependencies,
                   result, retErr, materialized, saves, declared, built,
                   edgeErr, errPhase, calls, prev, fresh, order>>

GraphNext ==
    \/ GraphInsert
    \/ GraphAddEdge
    \/ GraphRemove

GraphSpec == GraphInit /\ [][GraphNext]_vars

(* ------------------------------ C15 ------------------------------------ *)

\* the pairs <<a, b>> with b a descendant of a in the graph
Descendants == Closure(Edges(graph))

\* C15: addEdge(fromID, toID) answers a cycle error exactly when both
\* identities are present and fromID is toID or a descendant of toID over the
\* edges before the call, answers another error when an identity is absent,
\* leaves the graph as it is whenever it fails, and when it succeeds changes
\* nothing but the edges, which then are those before and fromID -> toID.
C15_AddEdge ==
    LET below == Descendants
    IN  \A fromID \in AllIds, toID \in AllIds :
        LET r       == addEdge(graph, fromID, toID)
            present == fromID \in graph.Nodes /\ toID \in graph.Nodes
        IN  /\ IsCyclicError(r.err) <=>
                   (present /\ (toID = fromID \/ <<toID, fromID>> \in below))
            /\ ~present => r.err.kind = "error"
            /\ r.err # NoError => r.g = graph
            /\ r.err = NoError =>
                   /\ present
                   /\ r.g.Nodes = graph.Nodes
                   /\ r.g.Data = graph.Data
                   /\ r.g.Root = graph.Root
                   /\ Edges(r.g) = Edges(graph) \cup {<<fromID, toID>>}
                   /\ \A n \in AllIds : IsPrefix(graph.Childs[n], r.g.Childs[n])

\* C15 witness: a graph in which addEdge has given a node a second parent,
\* in which it answers a cycle error for two distinct nodes, and which lacks
\* an identity
C15_Witness ==
    /\ \E n \in NonRoot(graph) :
           Cardinality({p \in graph.Nodes : n \in Range(graph.Childs[p])}) = 2
    /\ \E a \in NonRoot(graph), b \in NonRoot(graph) :
           a # b /\ IsCyclicError(addEdge(graph, a, b).err)
    /\ graph.Nodes # AllIds

(* ------------------------------ C16 ------------------------------------ *)

\* the nodes of g that point to the node id
Parents(g, id) == {p \in g.Nodes \ {id} : id \in Range(g.Childs[p])}

C16_RemoveNode ==
    \A id \in graph.Nodes :
        LET r == removeNode(graph, id)
        IN  /\ r.err # NoError <=>
                   (id = graph.Root \/ \E c \in graph.Nodes : <<id, c>> \in Edges(graph))
            /\ r.err # NoError => r.g = graph
            /\ r.err = NoError =>
                   /\ r.g.Nodes = graph.Nodes \ {id}
                   /\ r.g.Root = graph.Root
                   /\ Edges(r.g) = {e \in Edges(graph) : e[1] # id /\ e[2] # id}
                   /\ \A n \in r.g.Nodes :
                          /\ r.g.Data[n] = graph.Data[n]
                          /\ r.g.Childs[n] =
                                 SelectSeq(graph.Childs[n], LAMBDA c : c # id)

\* a turn of the loop of buildDependencyQueue removes the node getNextLeaf
\* gave, a node that other nodes point to, without an error
C16_DrainTurn ==
    (pc = "drain" /\ MoreNodes(graph)) =>
        LET next == getNextLeaf(graph, graph.Root)
        IN  /\ next # graph.Root
            /\ Parents(graph, next) # {}
            /\ pc' = "drain"
            /\ graph' = removeNode(graph, next).g
            /\ next \notin graph'.Nodes
            /\ \A n \in AllIds : next \notin Range(graph'.Childs[n])

C17_InsertNodeAt ==
    \A parentID \in AllIds, id \in AllIds :
        LET data == Payload(id)
            r    == insertNodeAt(graph, parentID, id, data)
        IN  /\ r.err # NoError <=>
                   (parentID \notin graph.Nodes \/ id \in graph.Nodes)
            /\ r.err # NoError => r.g = graph
            /\ r.err = NoError =>
                   /\ r.g.Nodes = graph.Nodes \cup {id}
                   /\ Cardinality(r.g.Nodes) = Cardinality(graph.Nodes) + 1
                   /\ r.g.Root = graph.Root
                   /\ r.g.Data[id] = data
                   /\ \A n \in graph.Nodes : r.g.Data[n] = graph.Data[n]
                   /\ Edges(r.g) = Edges(graph) \cup {<<parentID, id>>}
                   /\ <<parentID, id>> \notin Edges(graph)
                   /\ r.g.Childs[parentID] = graph.Childs[parentID] \o <<id>>
                   /\ \A n \in AllIds \ {parentID} : r.g.Childs[n] = graph.Childs[n]

\* C17 witness: a node was inserted under a parent that had a child, and the
\* graph lacks an identity, so that insertNodeAt has a case that succeeds,
\* one that fails for the parent and one that fails for the identity
C17_Witness ==
    /\ \E p \in graph.Nodes :
           /\ Len(graph.Childs[p]) = 2
           /\ graph.Childs[p][2] \in NonRoot(graph)
           /\ graph.Data[graph.Childs[p][2]] = Payload(graph.Childs[p][2])
    /\ \E a \in AllIds \ graph.Nodes, b \in graph.Nodes :
           /\ insertNodeAt(graph, b, a, Payload(a)).err = NoError
           /\ insertNodeAt(graph, a, a, Payload(a)).err # NoError
           /\ insertNodeAt(graph, b, b, Payload(b)).err # NoError

(* ------------------------------ C18 ------------------------------------ *)

\* the node met by going from n to the first child, and on, until a node
\* without a child in the graph
RECURSIVE FirstChildDescent(_, _)
FirstChildDescent(g, n) ==
    LET cs == SelectSeq(g.Childs[n], LAMBDA c : c \in g.Nodes)
    IN  IF cs = <<>> THEN n ELSE FirstChildDescent(g, cs[1])

C19_NoDanglingEdges ==
    /\ \A n \in AllIds : Range(graph.Childs[n]) \subseteq graph.Nodes
    /\ \A n \in AllIds \ graph.Nodes : graph.Childs[n] = <<>>
    /\ \A n \in AllIds : Range(built.Childs[n]) \subseteq built.Nodes

\* C19 witness: the drain has removed a node that two nodes pointed to, and
\* nodes with edges are left
C19_Witness ==
    /\ pc = "drain"
    /\ Len(retDependencies) = 1
    /\ Cardinality(Parents(built, retDependencies[1].ID)) = 2
    /\ retDependencies[1].ID \notin graph.Nodes
    /\ Edges(graph) # {}

(* ------------------------------ C20 ------------------------------------ *)

\* what is left of the set S of identities when the identities without a
\* child in S are taken away, again and again: the identities on a cycle
\* within S and those from which such a cycle is reached
RECURSIVE Peel(_, _)
Peel(g, S) ==
    LET leaves == {n \in S : Range(g.Childs[n]) \cap S = {}}
    IN  IF leaves = {} THEN S ELSE Peel(g, S \ leaves)

\* C20: in every state of a Resolve call, with AllowCyclic or without, the
\* graph has no cycle, and no node points to the root, so that the root is
\* no descendant of a node.
C20_Acyclic ==
    /\ Peel(graph, AllIds) = {}
    /\ \A n \in AllIds : graph.Root \notin Range(graph.Childs[n])

\* C20 witness: with AllowCyclic a declaration that closes a cycle has been
\* processed, and the descent has gone on to the end
C20_Witness ==
    /\ AllowCyclic
    /\ IsCyclicError(edgeErr)
    /\ pc = "save"
    /\ Cardinality(NonRoot(graph)) >= 2

(* ------------------------------ C21 ------------------------------------ *)

\* C21: with AllowCyclic, once the descent is over, every declaration that
\* was processed and names its own parent or a node with a path to its
\* parent has its edge parent -> identity in the graph, and resolveDependency
\* ran at most once per identity.
C21_CycleEdgeRealized ==
    (AllowCyclic /\ DescentOver) =>
        /\ \A n \in Ids : materialized[n] <= 1
        /\ \A pd \in declared :
               HasPath(built, pd[2], pd[1]) => pd[2] \in Range(built.Childs[pd[1]])


\* C21 amended: with AllowCyclic, once the descent is over, a declaration
\* that was processed and names its own parent or a node with a path to its
\* parent has no edge parent -> identity in the graph, the node it names is
\* in the graph, every other processed declaration has its edge, and
\* resolveDependency ran at most once per identity.
C21_CycleEdgeDropped ==
    (AllowCyclic /\ DescentOver) =>
        /\ \A n \in Ids : materialized[n] <= 1
        /\ \A pd \in declared :
               /\ pd[2] \in built.Nodes
               /\ HasPath(built, pd[2], pd[1]) <=>
                      pd[2] \notin Range(built.Childs[pd[1]])

\* C21 witness: with AllowCyclic the descent is over, a declaration named an
\* ancestor of its parent other than the parent, that ancestor was
\* materialized once and the edge to it is not in the graph
C21_Witness ==
    /\ AllowCyclic
    /\ pc = "save"
    /\ \E pd \in declared :
           /\ pd[1] # pd[2]
           /\ HasPath(built, pd[2], pd[1])
           /\ pd[2] \notin Range(built.Childs[pd[1]])
           /\ materialized[pd[2]] = 1


\* Depth-first walk over the declarations, in their order, from the list
\* deps[i..]: an identity is put on `pre' where it is named first, before
\* its own declarations are walked.
RECURSIVE DeclPreWalk(_, _, _, _)
DeclPreWalk(deps, i, visited, pre) ==
    IF i > Len(deps) THEN [visited |-> visited, pre |-> pre]
    ELSE LET id == deps[i].Source
         IN  IF id \in visited THEN DeclPreWalk(deps, i + 1, visited, pre)
             ELSE LET sub == IF deps[i].IgnoreDependencies
                             THEN [visited |-> visited \cup {id}, pre |-> Append(pre, id)]
                             ELSE DeclPreWalk(world[id].deps, 1, visited \cup {id},
                                              Append(pre, id))
                  IN  DeclPreWalk(deps, i + 1, sub.visited, sub.pre)

\* pre-order of the walk over the declarations from the root
DeclPreOrder == DeclPreWalk(baseDeps, 1, {}, <<>>).pre

\* C22: resolveDependency is called in the depth-first pre-order of the
\* declarations: on the first call of a resolver the identities it was called
\* for are a prefix of that pre-order, and all of it once the descent is over;
\* every dependency materialized is in the graph while the descent goes on;
\* each active resolveRecursive call works on the declarations of the
\* dependency its caller materialized last, so the caller's next sibling
\* waits; and the parent of every active call, which is every ancestor of the
\* declaration in process, is a node of the graph.
C22_MaterializationOrder ==
    /\ (fresh /\ pc # "idle") =>
          LET pre == DeclPreOrder
          IN  /\ IsPrefix(order, pre)
              /\ DescentOver => order = pre
    /\ pc = "descend" =>
          /\ \A j \in 1..Len(order) : order[j] \in graph.Nodes
          /\ \A k \in 1..Len(stack) :
                /\ stack[k].parentID \in graph.Nodes
                /\ k = 1 => stack[k].parentID = graph.Root
                /\ k > 1 =>
                      /\ stack[k - 1].i > 1
                      /\ stack[k].parentID = stack[k - 1].deps[stack[k - 1].i - 1].Source
                      /\ stack[k].deps = graph.Data[stack[k].parentID].Dependencies

\* C22 witness: the root declares two dependencies, the first has a nested
\* one that was materialized before the second, and a nested declaration
\* names one of its ancestors
C22_Witness ==
    /\ fresh
    /\ pc = "save"
    /\ Len(order) = 3
    /\ Len(baseDeps) = 2
    /\ baseDeps[1].Source = order[1]
    /\ baseDeps[2].Source = order[3]
    /\ <<order[1], order[2]>> \in declared
    /\ <<order[2], order[1]>> \in declared


\* C23: when a step of resolveDependency fails (download, option cloning,
\* config load, command parsing, generated-config load, client creation,
\* docker client creation), resolveDependency returns no Dependency next to
\* the error, the identity gets no node (the graph is left as it was) and the
\* call ends with that error and no list; a node is only inserted with the
\* record of a resolveDependency call in which no step failed.
C23_NoHalfInitialized ==
    [][(AtDeclaration /\ CurrentID \notin graph.Nodes) =>
          LET decl == Top.deps[Top.i]
              ID   == CurrentID
          IN  /\ ~world'[ID].ok =>
                    \E failing \in AttemptedSteps(decl) :
                       LET d == resolveDependency(world'[ID], decl, client, failing)
                       IN  /\ d.err # NoError
                           /\ d.dep = NilData
                           /\ pc' = "done"
                           /\ result' = NilList
                           /\ retErr' = DescentError(d.err)
                           /\ graph' = graph
                           /\ ID \notin graph'.Nodes
              /\ ID \in graph'.Nodes =>
                    /\ world'[ID].ok
                    /\ LET d == resolveDependency(world'[ID], decl, client, "none")
                       IN  d.err = NoError /\ graph'.Data[ID] = d.dep]_vars

\* C23 witness: a dependency was materialized and inserted, then creating the
\* client of a second one that sets a namespace failed: the call is over with
\* that error and the second identity has no node
C23_Witness ==
    /\ pc = "done"
    /\ errPhase = "descent"
    /\ retErr = DescentError(StepError("client"))
    /\ Len(order) = 2
    /\ order[1] \in graph.Nodes
    /\ order[2] \notin graph.Nodes
    /\ result.isNil


C25_RootReachability ==
    /\ graph.Nodes \subseteq ReachFrom(graph, {graph.Root})
    /\ (pc = "drain" /\ MoreNodes(graph)) => getNextLeaf(graph, graph.Root) # graph.Root

\* C25 witness: the drain has removed a leaf that two declarations named,
\* and the nodes left besides the root are reachable from the root
C25_Witness ==
    /\ pc = "drain"
    /\ Len(retDependencies) = 1
    /\ Cardinality({pd \in declared : pd[2] = retDependencies[1].ID}) >= 2
    /\ Cardinality(graph.Nodes) >= 2
    /\ graph.Nodes \subseteq ReachFrom(graph, {graph.Root})


\* the messages of the errors the graph store gives when it is misused
ConsistencyErrors ==
    {"parent does not exist", "node already exists", "node does not exist",
     "cannot remove the root", "node still has children"}

\* C26: Resolve calls the graph store within its preconditions: insertNodeAt
\* with a parent that is a node and an identity that is none, addEdge with two
\* nodes, removeNode with a node other than the root that has no child left;
\* these calls give no error other than the cycle error of addEdge, and no
\* error of a misuse of the graph store is ever returned by Resolve.
C26_PreconditionsKept ==
    /\ AtDeclaration =>
          /\ Top.parentID \in graph.Nodes
          /\ IF CurrentID \in graph.Nodes
             THEN LET r == LinkExistingNode(graph, Top.parentID, CurrentID, AllowCyclic)
                  IN  r.edge = NoError \/ IsCyclicError(r.edge)
             ELSE InsertNewNode(graph, Top.parentID, CurrentID, NilData).err = NoError
    /\ (pc = "drain" /\ MoreNodes(graph)) =>
          LET next == getNextLeaf(graph, graph.Root)
          IN  /\ next \in graph.Nodes
              /\ next # graph.Root =>
                    /\ LiveChilds(graph, next) = <<>>
                    /\ RemoveNext(graph, next).err = NoError
    /\ errPhase # "drain"
    /\ retErr.msg \notin ConsistencyErrors
    /\ edgeErr.msg \notin ConsistencyErrors

\* C26 witness: a call that used insertNodeAt, addEdge on an existing node and
\* removeNode has returned its list
C26_Witness ==
    /\ Returned
    /\ Len(result.deps) >= 2
    /\ \E n \in Ids : Cardinality({pd \in declared : pd[2] = n}) >= 2
    /\ graph.Nodes = {graph.Root}


\* the record of every node is the one resolveDependency gives for the
\* declaration naming the identity first in depth-first order, and that
\* declaration alone decides whether the declarations of the dependency were
\* processed
C27_FirstDeclarationDecides ==
    (DescentOver /\ fresh) =>
        LET first == MaterializingDecl
        IN  \A n \in built.Nodes \ {RootID} :
               /\ materialized[n] = 1
               /\ built.Data[n] = resolveDependency(world[n], first[n], client, "none").dep
               /\ IF first[n].IgnoreDependencies
                  THEN \A pd \in declared : pd[1] # n
                  ELSE \A i \in 1..Len(world[n].deps) :
                          <<n, world[n].deps[i].Source>> \in declared

\* a declaration of an identity that has a node, whatever it sets, leaves
\* every record and the node map as they are, calls resolveDependency for
\* nothing, starts no resolveRecursive call, and changes no edge but the one
\* from its parent to the node
C27_LaterDeclarationLinks ==
    (AtDeclaration /\ CurrentID \in graph.Nodes) =>
        /\ graph'.Data = graph.Data
        /\ graph'.Nodes = graph.Nodes
        /\ materialized' = materialized
        /\ order' = order
        /\ pc' = "descend" => stack' = Advance(stack)
        /\ \A n \in AllIds \ {Top.parentID} : graph'.Childs[n] = graph.Childs[n]
        /\ graph'.Childs[Top.parentID] \in
              {graph.Childs[Top.parentID], Append(graph.Childs[Top.parentID], CurrentID)}

\* C27: of the declarations of one identity the one reached first in
\* depth-first order is materialized and decides whether the nested
\* declarations are resolved; a later one only adds an edge or is dropped,
\* and its ignoreDependencies, skipBuild and namespace change neither the
\* record nor the descent.
C27_FirstDeclarationWins ==
    /\ []C27_FirstDeclarationDecides
    /\ [][C27_LaterDeclarationLinks]_vars

\* C27 witness: an identity is declared twice; the first declaration sets
\* nothing and its nested declaration was resolved, the later one sets
\* ignoreDependencies, skipBuild and a namespace, and the record is that of
\* the first
C27_Witness ==
    /\ pc = "save"
    /\ fresh
    /\ \E n \in built.Nodes \ {RootID} : \E d \in ProcessedDecls :
          /\ d.Source = n
          /\ d.IgnoreDependencies /\ d.SkipBuild /\ d.Namespace = "other"
          /\ built.Data[n].Namespace = ""
          /\ built.Data[n].Images = "config"
          /\ built.Data[n].kubeClient = client
          /\ built.Childs[n] # <<>>
          /\ Cardinality({pd \in declared : pd[2] = n}) >= 2


(* --------------------------- StartTerminal ----------------------------- *)

\* the exec goroutine of the latest session
LastExec == execs[Len(execs)]

\* a value is received from the channel done of the latest session: the send
\* of its goroutine completes and the goroutine ends
Receive(gs) == [gs EXCEPT ![Len(gs)].at = "exit"]

\* WaitForExec that returns without receiving from done
WaitForExecSkipped(gs) == gs

\* StartTerminal, the interrupt branch after Close: <-done
WaitForExec(gs) == Receive(gs)

\* Restarts that does not look at the exit code
RestartsWhateverCode(e, r) ==
    IF e.kind = "nil" THEN FALSE
    ELSE IF e.kind = "interrupt" THEN FALSE
    ELSE r

\* StartTerminal, the done branch: is StartTerminal called again for the
\* error e the exec returned, under the restart argument r
Restarts(e, r) ==
    IF e.kind = "nil" THEN FALSE
    ELSE IF e.kind = "interrupt" THEN FALSE
    ELSE IF e.kind = "exit" THEN r /\ e.code # 0
    ELSE r

\* StartTerminal, the done branch: what is returned when it is not called
\* again
DoneReturn(e) ==
    IF e.kind = "nil" THEN [code |-> 0, err |-> NilErr]
    ELSE IF e.kind = "interrupt" THEN [code |-> 0, err |-> e]
    ELSE IF e.kind = "exit" THEN [code |-> e.code, err |-> NilErr]
    ELSE [code |-> 0, err |-> e]

\* StartTerminal is called, with or without restart; the resolver is idle
TerminalInit ==
    /\ nsLimit = 0
    /\ failSteps = {"download"}
    /\ client = RootClient
    /\ Start
    /\ AllowCyclic = FALSE
    /\ baseDeps = <<>>
    /\ restart \in BOOLEAN
    /\ interrupt = NoSignal
    /\ execs = <<>>
    /\ upgraderClosed = <<>>
    /\ termPc = "start"
    /\ termErr = NilErr
    /\ termRet = NoReturn

\* SelectSingleContainer or GetUpgraderWrapper fails: return 0, err
SelectContainerFails ==
    /\ termPc = "start"
    /\ termErr' = OtherErr
    /\ termRet' = [code |-> 0, err |-> OtherErr]
    /\ termPc' = "returned"
    /\ UNCHANGED <<resolving, restart, interrupt, execs, upgraderClosed>>

\* the container is selected, done is made and the goroutine is started
OpenSession ==
    /\ termPc = "start"
    /\ Len(execs) < MaxSessions
    /\ execs' = Append(execs, [at |-> "exec", val |-> NilErr])
    /\ upgraderClosed' = Append(upgraderClosed, FALSE)
    /\ termErr' = NilErr
    /\ termPc' = "select"
    /\ UNCHANGED <<resolving, restart, interrupt, termRet>>

\* ExecStreamWithTransport returns in a goroutine, which then waits to send
\* the result on done
ExecReturns ==
    /\ \E k \in 1..Len(execs) : \E r \in ExecResults :
          /\ execs[k].at = "exec"
          /\ execs' = [execs EXCEPT ![k] = [at |-> "send", val |-> r]]
    /\ UNCHANGED <<resolving, restart, interrupt, upgraderClosed, termPc, termErr,
                   termRet>>

\* somebody sends on the interrupt channel
Signal ==
    /\ termPc # "idle"
    /\ interrupt.state = "quiet"
    /\ \E e \in InterruptValues : interrupt' = [state |-> "pending", val |-> e]
    /\ UNCHANGED <<resolving, restart, execs, upgraderClosed, termPc, termErr,
                   termRet>>

\* select: case err = <-interrupt
ReceiveInterrupt ==
    /\ termPc = "select"
    /\ interrupt.state = "pending"
    /\ termErr' = interrupt.val
    /\ interrupt' = [interrupt EXCEPT !.state = "taken"]
    /\ termPc' = "close"
    /\ UNCHANGED <<resolving, restart, execs, upgraderClosed, termRet>>

\* _ = upgradeRoundTripper.Close()
CloseUpgrader ==
    /\ termPc = "close"
    /\ upgraderClosed' = [upgraderClosed EXCEPT ![Len(upgraderClosed)] = TRUE]
    /\ termPc' = "wait"
    /\ UNCHANGED <<resolving, restart, interrupt, execs, termErr, termRet>>

\* <-done; return 0, err
ReceiveAfterClose ==
    /\ termPc = "wait"
    /\ LastExec.at = "send"
    /\ execs' = WaitForExec(execs)
    /\ termRet' = [code |-> 0, err |-> termErr]
    /\ termPc' = "returned"
    /\ UNCHANGED <<resolving, restart, interrupt, upgraderClosed, termErr>>

\* select: case err = <-done, and what follows it: the call of StartTerminal
\* for a new session, or the return
ReceiveDone ==
    /\ termPc = "select"
    /\ LastExec.at = "send"
    /\ execs' = Receive(execs)
    /\ termErr' = LastExec.val
    /\ IF Restarts(LastExec.val, restart)
       THEN /\ termPc' = "start"
            /\ UNCHANGED termRet
       ELSE /\ termPc' = "returned"
            /\ termRet' = DoneReturn(LastExec.val)
    /\ UNCHANGED <<resolving, restart, interrupt, upgraderClosed>>

TerminalNext ==
    \/ SelectContainerFails
    \/ OpenSession
    \/ ExecReturns
    \/ Signal
    \/ ReceiveInterrupt
    \/ CloseUpgrader
    \/ ReceiveAfterClose
    \/ ReceiveDone

TerminalSpec == TerminalInit /\ [][TerminalNext]_vars

\* C28: StartTerminal returns only when every exec goroutine it started has
\* had its one value received from done and has ended, whichever of the
\* interrupt and the end of the exec comes first; a session is only opened
\* when the goroutines of the sessions before have ended; after an interrupt
\* the round-tripper is closed before StartTerminal waits on done, and
\* StartTerminal returns 0 and the error received from the interrupt channel.
C28_NoGoroutineLeak ==
    /\ termPc = "returned" => \A k \in 1..Len(execs) : execs[k].at = "exit"
    /\ \A k \in 1..(Len(execs) - 1) : execs[k].at = "exit"
    /\ termPc = "start" => \A k \in 1..Len(execs) : execs[k].at = "exit"
    /\ termPc = "wait" => upgraderClosed[Len(upgraderClosed)]
    /\ interrupt.state = "taken" =>
          /\ termPc \in {"close", "wait", "returned"}
          /\ termPc = "returned" =>
                /\ upgraderClosed[Len(upgraderClosed)]
                /\ termRet = [code |-> 0, err |-> interrupt.val]

\* C28 witness: in the second session the exec had ended with exit code 1
\* when the interrupt was received; StartTerminal closed the round-tripper,
\* received the value and returned the interrupt's error
C28_Witness ==
    /\ termPc = "returned"
    /\ restart
    /\ Len(execs) = 2
    /\ interrupt = [state |-> "taken", val |-> OtherErr]
    /\ execs[2] = [at |-> "exit", val |-> CodeExitError(1)]
    /\ upgraderClosed = <<FALSE, TRUE>>
    /\ termRet = [code |-> 0, err |-> OtherErr]

\* StartTerminal is called for a new session in this step
C29_Started == termPc' = "start" /\ termPc # "start"

\* the select of StartTerminal receives the result of the exec from done in
\* this step
C29_ReceivedDone ==
    /\ termPc = "select"
    /\ LastExec.at = "send"
    /\ execs'[Len(execs)].at = "exit"

\* C29: StartTerminal is called for a new session exactly when its select
\* received from done an exit error with a code other than 0, or an error
\* that is neither an InterruptError nor an exit error, and restart is set;
\* otherwise the value received from done makes it return: (0, nil) for
\* nil, (0, err) for an InterruptError, (code, nil) for an exit error, (0,
\* err) for another error; after a receive from the interrupt channel no
\* session is started and (0, the error received) is returned.
C29_RestartPolicy ==
    [][/\ C29_Started <=>
             /\ C29_ReceivedDone
             /\ restart
             /\ \/ LastExec.val.kind = "exit" /\ LastExec.val.code # 0
                \/ LastExec.val.kind = "other"
       /\ (C29_ReceivedDone /\ ~C29_Started) =>
             /\ termPc' = "returned"
             /\ termRet' = CASE LastExec.val.kind = "nil" -> [code |-> 0, err |-> NilErr]
                             [] LastExec.val.kind = "interrupt" -> [code |-> 0, err |-> InterruptErr]
                             [] LastExec.val.kind = "exit" -> [code |-> LastExec.val.code, err |-> NilErr]
                             [] LastExec.val.kind = "other" -> [code |-> 0, err |-> OtherErr]
       /\ (termPc = "select" /\ termPc' = "close") => termErr' = interrupt.val
       /\ (termPc \in {"close", "wait"} /\ termPc' # termPc) =>
             /\ termPc' \in {"wait", "returned"}
             /\ termPc' = "returned" => termRet' = [code |-> 0, err |-> interrupt.val]]_vars

\* C29 witness: with restart set, sessions were opened again after exit code
\* 1 and after another error, and exit code 0 made StartTerminal return (0, nil)
C29_Witness ==
    /\ termPc = "returned"
    /\ restart
    /\ Len(execs) = 3
    /\ execs[1].val = CodeExitError(1)
    /\ execs[2].val = OtherErr
    /\ execs[3].val = CodeExitError(0)
    /\ interrupt.state = "quiet"
    /\ termRet = [code |-> 0, err |-> NilErr]

=============================================================================
